---- MODULE Spec2Model ----
(***************************************************************************)
(* buildenv: one invocation of app.Action (src/buildenv.go).               *)
(*                                                                         *)
(* Text is modelled as follows.  A YAML scalar, a variable value, a secret *)
(* value and a secret path are sequences of one-character strings, so that *)
(* %q can be modelled character by character.  Variable names, environment *)
(* names and datacenter names are atomic strings.  A line of output is the *)
(* sequence of the pieces that fmt wrote; the text of the line is their    *)
(* concatenation.                                                          *)
(***************************************************************************)
EXTENDS Integers, Sequences, FiniteSets, TLC

\* ------------------------------------------------------------------ bounds
MaxValLen == 1      \* longest value drawn for a variable
MaxKeys == 2        \* most entries in the global vars / global secrets bucket

\* --------------------------------------------------------------- constants
EnvErrorCode == 2
FileErrorCode == 4
YamlErrorCode == 5
VaultErrorCode == 6

\* ------------------------------------------------------------ YAML document
\* A node of the parsed document: a non-null scalar or a mapping with string
\* keys.  Garbage is a file that is not YAML at all.
Scalar(v) == [t |-> "scalar", v |-> v]
Mapping(m) == [t |-> "map", m |-> m]
Garbage == [t |-> "garbage"]
EmptyMap == <<>>

RECURSIVE SetToSeq(_)
SetToSeq(S) ==
    IF S = {} THEN <<>>
    ELSE LET x == CHOOSE y \in S : TRUE IN <<x>> \o SetToSeq(S \ {x})

\* A field that the document does not have.
Absent == [t |-> "absent"]

\* A decode result: good as decoder.unmarshal returns it, val the value left
\* in the target, errs the type errors appended to decoder.terrors.
Zero(val) == [good |-> TRUE, val |-> val, errs |-> <<>>]
TErr(tag, into, val) == [good |-> FALSE, val |-> val, errs |-> << <<tag, into>> >>]

RECURSIVE ConcatErrs(_, _)
ConcatErrs(r, keys) ==
    IF keys = <<>> THEN <<>>
    ELSE r[Head(keys)].errs \o ConcatErrs(r, Tail(keys))

KeysOf(n) == IF n.t = "map" THEN DOMAIN n.m ELSE {}

\* yaml.v2 into a map[string]T, r[k] being the decode of the element at key
\* k: a scalar is a type error and leaves the map nil; in a mapping every
\* element that decodes is stored, every element that does not is skipped
\* and its error recorded.  A field the document lacks stays nil.
DecMapOf(n, r, into) ==
    IF n.t = "map"
    THEN LET ok == {k \in DOMAIN n.m : r[k].good}
         IN [good |-> TRUE,
             val |-> [k \in ok |-> r[k].val],
             errs |-> ConcatErrs(r, SetToSeq(DOMAIN n.m))]
    ELSE IF n.t = "absent" THEN Zero(EmptyMap)
    ELSE TErr("!!str", into, EmptyMap)

\* yaml.v2 into a string: every non-null scalar is accepted.
DecString(n) ==
    IF n.t = "scalar" THEN [good |-> TRUE, val |-> n.v, errs |-> <<>>]
    ELSE TErr("!!map", "string", <<>>)

\* EnvVars and Secrets: map[string]string.
DecStrMap(n) == DecMapOf(n, [k \in KeysOf(n) |-> DecString(n.m[k])], "map[string]string")

\* The value a struct field is decoded from: the node at the lower-cased
\* field name.  Keys of the mapping that name no field are ignored.
Field(n, name) == IF name \in DOMAIN n.m THEN n.m[name] ELSE Absent

ZeroDc == [Vars |-> EmptyMap, Secrets |-> EmptyMap]
ZeroEnv == [Vars |-> EmptyMap, Secrets |-> EmptyMap, Dcs |-> EmptyMap]
ZeroConfig == [Vars |-> EmptyMap, Secrets |-> EmptyMap, Environments |-> EmptyMap]

\* The datacenter value of Config: struct { Vars; Secrets }.
DecDcV2(n) ==
    IF n.t = "map"
    THEN LET v == DecStrMap(Field(n, "vars"))
             s == DecStrMap(Field(n, "secrets"))
         IN [good |-> TRUE,
             val |-> [Vars |-> v.val, Secrets |-> s.val],
             errs |-> v.errs \o s.errs]
    ELSE TErr("!!str", "struct", ZeroDc)

\* The datacenter value of ConfigV1: EnvVars.
DecDcV1(n) == DecStrMap(n)

DecDcsV2(n) == DecMapOf(n, [k \in KeysOf(n) |-> DecDcV2(n.m[k])], "map[string]struct")
DecDcsV1(n) == DecMapOf(n, [k \in KeysOf(n) |-> DecDcV1(n.m[k])], "map[string]main.EnvVars")

\* An element of Environments, of Config (ver 2) or of ConfigV1 (ver 1).
DecEnv(n, ver) ==
    IF n.t = "map"
    THEN LET v == DecStrMap(Field(n, "vars"))
             s == DecStrMap(Field(n, "secrets"))
             d == IF ver = 2 THEN DecDcsV2(Field(n, "dcs")) ELSE DecDcsV1(Field(n, "dcs"))
         IN [good |-> TRUE,
             val |-> [Vars |-> v.val, Secrets |-> s.val, Dcs |-> d.val],
             errs |-> v.errs \o s.errs \o d.errs]
    ELSE TErr("!!str", "struct", ZeroEnv)

DecEnvironments(n, ver) ==
    DecMapOf(n, [k \in KeysOf(n) |-> DecEnv(n.m[k], ver)], "map[string]struct")

\* Config (ver 2) or ConfigV1 (ver 1).
DecConfig(n, ver) ==
    IF n.t = "map"
    THEN LET v == DecStrMap(Field(n, "vars"))
             s == DecStrMap(Field(n, "secrets"))
             e == DecEnvironments(Field(n, "environments"), ver)
         IN [good |-> TRUE,
             val |-> [Vars |-> v.val, Secrets |-> s.val, Environments |-> e.val],
             errs |-> v.errs \o s.errs \o e.errs]
    ELSE TErr("!!str", "main.Config", ZeroConfig)

\* yaml.Unmarshal(yamlFile, &config): failed is err != nil, val what the
\* target holds afterwards (everything that did decode, also on failure),
\* msg the lines of err.Error().
Unmarshal(bytes, ver) ==
    IF bytes.t = "garbage"
    THEN [failed |-> TRUE, val |-> ZeroConfig,
          msg |-> << <<"yaml: did not find expected node content">> >>]
    ELSE LET r == DecConfig(bytes, ver)
         IN [failed |-> r.errs # <<>>,
             val |-> r.val,
             msg |-> << <<"yaml: unmarshal errors:">> >> \o
                     [i \in 1..Len(r.errs) |->
                        <<"  cannot unmarshal ", r.errs[i][1], " into ", r.errs[i][2]>>]]

UnmarshalV2(bytes) == Unmarshal(bytes, 2)
UnmarshalV1(bytes) == Unmarshal(bytes, 1)

\* A Go map read at a key it does not have gives the zero value.
Lookup(m, k, zero) == IF k \in DOMAIN m THEN m[k] ELSE zero


Merge(f, g) ==
    [x \in (DOMAIN f) \cup (DOMAIN g) |-> IF x \in DOMAIN f THEN f[x] ELSE g[x]]

\* ------------------------------------------------------------------ output
\* Mutation: the value is written as it is, as %s would.
QuoteCharRaw(c) == <<c>>

\* strconv.Quote as %q applies it to a string: the text between two double
\* quotes, with a double quote and a backslash each preceded by a backslash
\* and a newline written as the two characters \n.
QuoteChar(c) ==
    CASE c = "\"" -> <<"\\", "\"">>
      [] c = "\\" -> <<"\\", "\\">>
      [] c = "\n" -> <<"\\", "n">>
      [] OTHER -> <<c>>

RECURSIVE QuoteBody(_)
QuoteBody(v) == IF v = <<>> THEN <<>> ELSE QuoteChar(Head(v)) \o QuoteBody(Tail(v))

Quote(v) == <<"\"">> \o QuoteBody(v) \o <<"\"">>

\* fmt.Printf("export %s=%q\n", k, v)
ExportVar(k, v) == <<"export ", k, "=">> \o Quote(v)

\* fmt.Printf("export %s=%q # %s\n", k, secret.Data["value"], path)
ExportSecret(k, value, path) == <<"export ", k, "=">> \o Quote(value) \o <<" # ">> \o path

\* The three opening lines; the third only for a non-empty dc.
HeaderLines(e, d) ==
    << <<"# Setting Variables for:">>, <<"# Environment: ", e>> >>
    \o (IF d # "" THEN << <<"# Datacenter: ", d>> >> ELSE <<>>)

\* ------------------------------------------------------------ secret store
\* GetVaultSecret(path) against a store st: client construction fails for
\* every path when the ambient settings are malformed; a read either fails,
\* finds no record, or returns the record's value.
NoRecord == [kind |-> "nil", value |-> <<>>]

\* Mutation: the nil check on the record is missing.
GetVaultSecretNoNilCheck(st, path) ==
    IF ~st.client
    THEN [err |-> <<"Vault - Client Error: ">>, value |-> <<>>]
    ELSE LET rec == Lookup(st.read, path, NoRecord)
         IN CASE rec.kind = "err" -> [err |-> <<"Vault - Read Error: ">>, value |-> <<>>]
              [] OTHER -> [err |-> <<>>, value |-> rec.value]

GetVaultSecret(st, path) ==
    IF ~st.client
    THEN [err |-> <<"Vault - Client Error: ">>, value |-> <<>>]
    ELSE LET rec == Lookup(st.read, path, NoRecord)
         IN CASE rec.kind = "err" -> [err |-> <<"Vault - Read Error: ">>, value |-> <<>>]
              [] rec.kind = "nil" -> [err |-> <<"Vault - No secret at path: ">> \o path, value |-> <<>>]
              [] OTHER -> [err |-> <<>>, value |-> rec.value]


\* ------------------------------------------------------------------ inputs
Chars == {"a", "\"", "\\", "\n"}

RECURSIVE Strings(_)
Strings(n) ==
    IF n = 0 THEN {<<>>}
    ELSE LET S == Strings(n - 1)
         IN S \cup {Append(x, c) : x \in {y \in S : Len(y) = n - 1}, c \in Chars}

Values == Strings(MaxValLen)

VarKeys == <<"FOO", "BAR", "BAZ", "QUX">>
SecretKeys == <<"TOK", "KEY", "PWD", "PIN">>
GlobalPaths == << <<"/", "g1">>, <<"/", "g2">>, <<"/", "g3">>, <<"/", "g4">> >>
EnvNames == {"dev", "prod"}
DcNames == {"us", "eu"}
EnvPath(e) == <<"/", e>>
DcPath(e, d) == <<"/", e, "/", d>>

Opt(name, node) == IF node = Absent THEN EmptyMap ELSE (name :> node)
Struct3(n1, v1, n2, v2, n3, v3) ==
    Mapping(Merge(Opt(n1, v1), Merge(Opt(n2, v2), Opt(n3, v3))))
StrMapNode(f) == Mapping([k \in DOMAIN f |-> Scalar(f[k])])

KeysUpTo(keys, i) == {keys[j] : j \in 1..i}

\* Global vars: absent, a scalar where a mapping is expected, one key bound
\* to any value, or the first i keys.
GlobalVarNodes ==
    {Absent, Scalar(<<"a">>)} \cup
    {StrMapNode(VarKeys[1] :> v) : v \in Values} \cup
    {StrMapNode([k \in KeysUpTo(VarKeys, i) |-> <<"a">>]) : i \in 2..MaxKeys}

\* Global secrets: absent, or the first i keys, key j at global path j.
GlobalSecretNodes ==
    {Absent} \cup
    {StrMapNode([k \in KeysUpTo(SecretKeys, i) |->
                    GlobalPaths[CHOOSE j \in 1..i : SecretKeys[j] = k]]) : i \in 1..MaxKeys}

\* Datacenter values in the V2 shape, struct { vars; secrets }.
DcV2(e, d) ==
    {Struct3("vars", StrMapNode("REGION" :> <<"a">>), "secrets", StrMapNode("DCTOK" :> DcPath(e, d)), "x", Absent),
     Struct3("vars", StrMapNode("REGION" :> <<"a">>), "secrets", Absent, "x", Absent),
     Struct3("vars", StrMapNode(("REGION" :> <<"a">>) @@ ("vars" :> <<"\"">>)), "secrets", Absent, "x", Absent),
     Struct3("vars", Absent, "secrets", StrMapNode("DCTOK" :> DcPath(e, d)), "x", Absent),
     Struct3("vars", StrMapNode("REGION" :> <<"a">>), "secrets", Scalar(<<"a">>), "x", Absent),
     Mapping(EmptyMap)}

\* Datacenter values in the V1 shape, a flat mapping from name to string, and
\* a scalar, which neither shape accepts.
DcV1(e, d) ==
    {StrMapNode("REGION" :> <<"a">>),
     StrMapNode(("REGION" :> <<"a">>) @@ ("vars" :> <<"\"">>)),
     StrMapNode("secrets" :> DcPath(e, d)),
     Scalar(<<"a">>)}

DcFull(e, d) ==
    Struct3("vars", StrMapNode("REGION" :> <<"a">>), "secrets", StrMapNode("DCTOK" :> DcPath(e, d)), "x", Absent)
DcFlat == StrMapNode(("REGION" :> <<"a">>) @@ ("vars" :> <<"\"">>))

\* The dcs of an environment: absent, us alone, or us and eu of one shape.
DcsNodes(e) ==
    {Absent} \cup
    {Mapping("us" :> n) : n \in DcV2(e, "us") \cup DcV1(e, "us")} \cup
    {Mapping(("us" :> DcFull(e, "us")) @@ ("eu" :> DcFull(e, "eu"))),
     Mapping(("us" :> DcFlat) @@ ("eu" :> StrMapNode("REGION" :> <<"\\">>)))}

EnvNode(e, dcs) ==
    Struct3("vars", StrMapNode("FOO" :> <<"\n">>), "secrets", StrMapNode("TOK" :> EnvPath(e)), "dcs", dcs)

BaseEnvironments ==
    Mapping(("dev" :> EnvNode("dev", Mapping("us" :> DcFull("dev", "us"))))
            @@ ("prod" :> EnvNode("prod", Absent)))

\* environments: absent, a scalar, dev alone, dev and prod, or a dev without
\* vars and secrets of its own.
EnvironmentsNodes ==
    {Absent, Scalar(<<"a">>), BaseEnvironments} \cup
    {Mapping("dev" :> EnvNode("dev", dcs)) : dcs \in DcsNodes("dev")} \cup
    {Mapping("dev" :> Struct3("vars", Absent, "secrets", Absent, "dcs", Mapping("us" :> n))) :
        n \in {DcFull("dev", "us"), DcFlat}}

BaseVars == StrMapNode("FOO" :> <<"a">>)
BaseSecrets == StrMapNode("TOK" :> GlobalPaths[1])
Document(v, s, e) == Struct3("vars", v, "secrets", s, "environments", e)

\* The files the runs are given: each layer varied over its nodes with the
\* other two at their base, a file that is not YAML, and a scalar document.
Documents ==
    {Document(v, BaseSecrets, BaseEnvironments) : v \in GlobalVarNodes} \cup
    {Document(BaseVars, s, BaseEnvironments) : s \in GlobalSecretNodes} \cup
    {Document(BaseVars, BaseSecrets, e) : e \in EnvironmentsNodes} \cup
    {Garbage, Scalar(<<"a">>)}

Unreadable == [readable |-> FALSE, bytes |-> Garbage]
Files == {Unreadable} \cup {[readable |-> TRUE, bytes |-> d] : d \in Documents}

AllPaths ==
    KeysUpTo(GlobalPaths, MaxKeys) \cup {EnvPath(e) : e \in EnvNames}
    \cup {DcPath("dev", d) : d \in DcNames}

\* The values a secret record holds: empty, or one character.
SecretValues == {<<>>} \cup {<<c>> : c \in Chars}

Record(v) == [kind |-> "ok", value |-> v]
ReadError == [kind |-> "err", value |-> <<>>]

\* The secret stores: every path holds one value; one path holds no record;
\* one path of each layer fails to read; the client cannot be constructed.
Vaults ==
    {[client |-> TRUE, read |-> [p \in AllPaths |-> Record(v)]] : v \in SecretValues} \cup
    {[client |-> TRUE, read |-> [p \in AllPaths |-> IF p = q THEN NoRecord ELSE Record(<<"a">>)]] :
        q \in AllPaths} \cup
    {[client |-> TRUE, read |-> [p \in AllPaths |-> IF p = q THEN ReadError ELSE Record(<<"a">>)]] :
        q \in {GlobalPaths[1], EnvPath("dev"), DcPath("dev", "us")}} \cup
    {[client |-> FALSE, read |-> [p \in AllPaths |-> Record(<<"a">>)]]}

\* ------------------------------------------------------------------- state
VARIABLES
    env, dc, mlockBool,     \* the flags
    disk,                   \* the file at varsFile
    vault,                  \* the secret store
    pc, section,            \* position in app.Action
    mlocked,                \* memory locked
    yamlFile,               \* bytes read
    legacy, config, configV1,
    todo,                   \* keys the current range loop has not visited
    cur,                    \* <<>> or the entry whose secret was fetched
    stdout, stderr,         \* lines written
    calls,                  \* GetVaultSecret calls made
    exit                    \* -1 while running, then the exit code

vars == <<env, dc, mlockBool, disk, vault, pc, section, mlocked, yamlFile,
          legacy, config, configV1, todo, cur, stdout, stderr, calls, exit>>

inputs == <<env, dc, mlockBool, disk, vault>>

Init ==
    /\ env \in {""} \cup EnvNames
    /\ dc \in {""} \cup DcNames
    /\ mlockBool \in BOOLEAN
    /\ disk \in Files
    /\ vault \in Vaults
    /\ pc = "enableMlock"
    /\ section = "GlobalVars"
    /\ mlocked = FALSE
    /\ yamlFile = Garbage
    /\ legacy = FALSE
    /\ config = ZeroConfig
    /\ configV1 = ZeroConfig
    /\ todo = {}
    /\ cur = <<>>
    /\ stdout = <<>>
    /\ stderr = <<>>
    /\ calls = <<>>
    /\ exit = -1

\* cli.NewExitError(msg, code) returned from the action: the message goes to
\* stderr and the process exits with the code.
ExitError(msg, code) ==
    /\ stderr' = Append(stderr, msg)
    /\ exit' = code
    /\ pc' = "done"

\* enableMlock(mlockBool)
EnableMlock ==
    /\ pc = "enableMlock"
    /\ mlocked' = mlockBool
    /\ pc' = "checkEnv"
    /\ UNCHANGED <<inputs, section, yamlFile, legacy, config, configV1, todo, cur,
                   stdout, stderr, calls, exit>>

\* Mutation: the file is looked at before the environment name.
CheckEnvAfterRead ==
    /\ pc = "checkEnv"
    /\ IF ~disk.readable
       THEN ExitError(<<"unable to read variable file ">>, FileErrorCode)
       ELSE IF env = ""
            THEN ExitError(<<"environment is required">>, EnvErrorCode)
            ELSE /\ pc' = "readFile"
                 /\ UNCHANGED <<stderr, exit>>
    /\ UNCHANGED <<inputs, section, mlocked, yamlFile, legacy, config, configV1, todo, cur,
                   stdout, calls>>

\* if env == "" { return cli.NewExitError("environment is required", 2) }
CheckEnv ==
    /\ pc = "checkEnv"
    /\ IF env = ""
       THEN ExitError(<<"environment is required">>, EnvErrorCode)
       ELSE /\ pc' = "readFile"
            /\ UNCHANGED <<stderr, exit>>
    /\ UNCHANGED <<inputs, section, mlocked, yamlFile, legacy, config, configV1, todo, cur,
                   stdout, calls>>

\* yamlFile, err := ioutil.ReadFile(filename)
ReadFile ==
    /\ pc = "readFile"
    /\ IF ~disk.readable
       THEN /\ ExitError(<<"unable to read variable file ">>, FileErrorCode)
            /\ UNCHANGED yamlFile
       ELSE /\ yamlFile' = disk.bytes
            /\ pc' = "unmarshal"
            /\ UNCHANGED <<stderr, exit>>
    /\ UNCHANGED <<inputs, section, mlocked, legacy, config, configV1, todo, cur,
                   stdout, calls>>

\* Mutation: no fallback; a failed decode of the current schema is a YAML error.
UnmarshalConfigNoFallback ==
    /\ pc = "unmarshal"
    /\ LET r == UnmarshalV2(yamlFile)
       IN /\ config' = r.val
          /\ IF r.failed
             THEN ExitError(<<"unable to unmarshal yaml">>, YamlErrorCode)
             ELSE /\ pc' = "header"
                  /\ UNCHANGED <<stderr, exit>>
    /\ UNCHANGED <<inputs, section, mlocked, yamlFile, legacy, configV1, todo, cur,
                   stdout, calls>>

\* err = yaml.Unmarshal(yamlFile, &config)
UnmarshalConfig ==
    /\ pc = "unmarshal"
    /\ LET r == UnmarshalV2(yamlFile)
       IN /\ config' = r.val
          /\ pc' = IF r.failed THEN "unmarshalV1" ELSE "header"
    /\ UNCHANGED <<inputs, section, mlocked, yamlFile, legacy, configV1, todo, cur,
                   stdout, stderr, calls, exit>>

\* err = yaml.Unmarshal(yamlFile, &configV1); legacy = true; on error the
\* decoder's message is printed with fmt.Println and the run exits 5.
UnmarshalLegacy ==
    /\ pc = "unmarshalV1"
    /\ LET r == UnmarshalV1(yamlFile)
       IN /\ configV1' = r.val
          /\ legacy' = TRUE
          /\ IF r.failed
             THEN /\ stdout' = stdout \o r.msg
                  /\ ExitError(<<"unable to unmarshal yaml">>, YamlErrorCode)
             ELSE /\ pc' = "header"
                  /\ UNCHANGED <<stdout, stderr, exit>>
    /\ UNCHANGED <<inputs, section, mlocked, yamlFile, config, todo, cur, calls>>

\* The opening banner lines.
Header ==
    /\ pc = "header"
    /\ stdout' = stdout \o HeaderLines(env, dc)
    /\ section' = "GlobalVars"
    /\ pc' = "banner"
    /\ UNCHANGED <<inputs, mlocked, yamlFile, legacy, config, configV1, todo, cur,
                   stderr, calls, exit>>


\* The sections the emission runs through, in order: the four global and
\* environment sections always; in legacy mode the datacenter vars only for
\* a non-empty dc; otherwise the datacenter vars and the datacenter secrets.
Sections(lg, d) ==
    <<"GlobalVars", "GlobalSecrets", "EnvVars", "EnvSecrets">> \o
    (IF lg THEN (IF d # "" THEN <<"DcVars">> ELSE <<>>)
     ELSE <<"DcVars", "DcSecrets">>)

SecretSections == {"GlobalSecrets", "EnvSecrets", "DcSecrets"}

\* Mutation: the datacenter banners carry the datacenter name in both modes.
BannerDcLabel(lg, e, d, s) ==
    CASE s = "GlobalVars" -> <<"# Global Vars:">>
      [] s = "GlobalSecrets" -> <<"# Global Secrets:">>
      [] s = "EnvVars" -> <<"# Environment (", e, ") Vars:">>
      [] s = "EnvSecrets" -> <<"# Environment (", e, ") Secrets:">>
      [] s = "DcVars" -> <<"# Datacenter (", d, ") Specific Vars:">>
      [] s = "DcSecrets" -> <<"# Datacenter (", d, ") Specific Secrets:">>

\* The banner of a section.
Banner(lg, e, d, s) ==
    CASE s = "GlobalVars" -> <<"# Global Vars:">>
      [] s = "GlobalSecrets" -> <<"# Global Secrets:">>
      [] s = "EnvVars" -> <<"# Environment (", e, ") Vars:">>
      [] s = "EnvSecrets" -> <<"# Environment (", e, ") Secrets:">>
      [] s = "DcVars" -> <<"# Datacenter (", (IF lg THEN d ELSE e), ") Specific Vars:">>
      [] s = "DcSecrets" -> <<"# Datacenter (", e, ") Specific Secrets:">>

\* Mutation: the datacenter is looked up by the environment name.
BucketByEnv(cfg, e, d, s) ==
    LET environment == Lookup(cfg.Environments, e, ZeroEnv)
        datacenter == Lookup(environment.Dcs, e, ZeroDc)
    IN CASE s = "GlobalVars" -> cfg.Vars
         [] s = "GlobalSecrets" -> cfg.Secrets
         [] s = "EnvVars" -> environment.Vars
         [] s = "EnvSecrets" -> environment.Secrets
         [] s = "DcVars" -> datacenter.Vars
         [] s = "DcSecrets" -> datacenter.Secrets

\* The mapping a section ranges over; both modes read config.
Bucket(cfg, e, d, s) ==
    LET environment == Lookup(cfg.Environments, e, ZeroEnv)
        datacenter == Lookup(environment.Dcs, d, ZeroDc)
    IN CASE s = "GlobalVars" -> cfg.Vars
         [] s = "GlobalSecrets" -> cfg.Secrets
         [] s = "EnvVars" -> environment.Vars
         [] s = "EnvSecrets" -> environment.Secrets
         [] s = "DcVars" -> datacenter.Vars
         [] s = "DcSecrets" -> datacenter.Secrets

IndexOf(seq, x) == CHOOSE i \in 1..Len(seq) : seq[i] = x

\* fmt.Println / fmt.Printf of a section's banner, and the start of its range.
PrintBanner ==
    /\ pc = "banner"
    /\ stdout' = Append(stdout, Banner(legacy, env, dc, section))
    /\ todo' = DOMAIN Bucket(config, env, dc, section)
    /\ pc' = "range"
    /\ UNCHANGED <<inputs, section, mlocked, yamlFile, legacy, config, configV1, cur,
                   stderr, calls, exit>>

\* One iteration of a range over vars, in the order the Go map gives.
PrintVar ==
    /\ pc = "range"
    /\ section \notin SecretSections
    /\ \E k \in todo :
          /\ stdout' = Append(stdout, ExportVar(k, Bucket(config, env, dc, section)[k]))
          /\ todo' = todo \ {k}
    /\ UNCHANGED <<inputs, pc, section, mlocked, yamlFile, legacy, config, configV1, cur,
                   stderr, calls, exit>>

\* secret, err := GetVaultSecret(path); an error returns exit code 6.
FetchSecret ==
    /\ pc = "range"
    /\ section \in SecretSections
    /\ cur = <<>>
    /\ \E k \in todo :
          LET path == Bucket(config, env, dc, section)[k]
              r == GetVaultSecret(vault, path)
          IN /\ calls' = Append(calls, [section |-> section, key |-> k, path |-> path,
                                        ok |-> r.err = <<>>, at |-> Len(stdout)])
             /\ IF r.err = <<>>
                THEN /\ cur' = <<[key |-> k, path |-> path, value |-> r.value]>>
                     /\ UNCHANGED <<pc, stderr, exit>>
                ELSE /\ ExitError(r.err, VaultErrorCode)
                     /\ UNCHANGED cur
    /\ UNCHANGED <<inputs, section, mlocked, yamlFile, legacy, config, configV1, todo, stdout>>

\* The export line of the secret just fetched.
PrintSecret ==
    /\ pc = "range"
    /\ cur # <<>>
    /\ stdout' = Append(stdout, ExportSecret(cur[1].key, cur[1].value, cur[1].path))
    /\ todo' = todo \ {cur[1].key}
    /\ cur' = <<>>
    /\ UNCHANGED <<inputs, pc, section, mlocked, yamlFile, legacy, config, configV1,
                   stderr, calls, exit>>

\* The end of a range: on to the next section, or return nil after the last.
EndRange ==
    /\ pc = "range"
    /\ todo = {}
    /\ cur = <<>>
    /\ LET ss == Sections(legacy, dc)
           i == IndexOf(ss, section)
       IN IF i < Len(ss)
          THEN /\ section' = ss[i + 1]
               /\ pc' = "banner"
               /\ UNCHANGED exit
          ELSE /\ pc' = "done"
               /\ exit' = 0
               /\ UNCHANGED section
    /\ UNCHANGED <<inputs, mlocked, yamlFile, legacy, config, configV1, todo, cur,
                   stdout, stderr, calls>>

Next ==
    \/ EnableMlock
    \/ CheckEnv
    \/ ReadFile
    \/ UnmarshalConfig
    \/ UnmarshalLegacy
    \/ Header
    \/ PrintBanner
    \/ PrintVar
    \/ FetchSecret
    \/ PrintSecret
    \/ EndRange

Spec == Init /\ [][Next]_vars

TypeOK ==
    /\ pc \in {"enableMlock", "checkEnv", "readFile", "unmarshal", "unmarshalV1",
               "header", "banner", "range", "done"}
    /\ exit \in {-1, 0, EnvErrorCode, FileErrorCode, YamlErrorCode, VaultErrorCode}
    /\ (pc = "done") = (exit # -1)


\* ============================================================== properties
Lines(out) == {out[i] : i \in 1..Len(out)}

\* A fetch at path p fails: no client, a read error, or no record.
FetchFails(p) == ~vault.client \/ Lookup(vault.read, p, NoRecord).kind # "ok"

Block(banner, lines) == [banner |-> banner, lines |-> lines]

\* out is exactly the blocks in order: each block its banner followed by its
\* lines, each once, in any order.
RECURSIVE Matches(_, _)
Matches(out, blocks) ==
    IF blocks = <<>> THEN out = <<>>
    ELSE LET b == Head(blocks)
             n == Cardinality(b.lines)
         IN /\ Len(out) >= n + 1
            /\ out[1] = b.banner
            /\ {out[i] : i \in 2..(n + 1)} = b.lines
            /\ Matches(SubSeq(out, n + 2, Len(out)), Tail(blocks))

VarLines(b) == {ExportVar(k, b[k]) : k \in DOMAIN b}
SecretLines(b) == {ExportSecret(k, Lookup(vault.read, b[k], NoRecord).value, b[k]) : k \in DOMAIN b}

HeaderBlocks ==
    <<Block(<<"# Setting Variables for:">>, {}), Block(<<"# Environment: ", env>>, {})>>
    \o (IF dc # "" THEN <<Block(<<"# Datacenter: ", dc>>, {})>> ELSE <<>>)

BannerHeads ==
    {"# Setting Variables for:", "# Environment: ", "# Datacenter: ", "# Global Vars:",
     "# Global Secrets:", "# Environment (", "# Datacenter ("}
IsBannerLine(l) == l # <<>> /\ l[1] \in BannerHeads
IsExportLine(l) ==
    /\ Len(l) >= 5
    /\ l[1] = "export "
    /\ l[3] = "="
    /\ l[4] = "\""
    /\ \A i \in 1..Len(l) : l[i] # "\n"

\* C5: with an empty environment name the run never gets past the check: it
\* ends with exit code 2, nothing on stdout, the file never read and no secret
\* fetched.
EnvironmentRequired ==
    env = "" =>
        /\ pc \in {"enableMlock", "checkEnv", "done"}
        /\ stdout = <<>>
        /\ calls = <<>>
        /\ yamlFile = Garbage
        /\ (pc = "done" => exit = 2)

EnvironmentRequiredWitness ==
    env = "" /\ pc = "done" /\ exit = 2 /\ disk.readable /\ disk.bytes.t = "map"

\* C1: a failing fetch is the last fetch of the run, the run has ended with
\* exit code 6, and stdout is as long as it was when the fetch was made.
FailFastOnSecrets ==
    \A i \in 1..Len(calls) :
        FetchFails(calls[i].path) =>
            /\ i = Len(calls)
            /\ pc = "done"
            /\ exit = 6
            /\ Len(stdout) = calls[i].at

FailFastOnSecretsWitness ==
    /\ calls # <<>>
    /\ vault.client
    /\ FetchFails(calls[Len(calls)].path)
    /\ calls[Len(calls)].section = "GlobalSecrets"
    /\ Cardinality(todo) > 1
    /\ DOMAIN Lookup(config.Environments, env, ZeroEnv).Secrets # {}


Range(f) == {f[k] : k \in DOMAIN f}

\* The secret paths of the buckets a run on document doc selects.
SelectedPaths(doc) ==
    LET r2 == UnmarshalV2(doc)
        cfg == IF r2.failed THEN UnmarshalV1(doc).val ELSE r2.val
        e == Lookup(cfg.Environments, env, ZeroEnv)
    IN Range(cfg.Secrets) \cup Range(e.Secrets) \cup
       (IF r2.failed THEN {} ELSE Range(Lookup(e.Dcs, dc, ZeroDc).Secrets))

\* C9: the exit code is that of the first failing stage in the order
\* environment, file, decode, secrets, and 0 when none fails; the legacy
\* decode is attempted only after the current one failed; exit 2, 4 and 5
\* leave no banner on stdout and no fetch made.
ExitCodeByFirstFailingStage ==
    /\ legacy => UnmarshalV2(yamlFile).failed
    /\ pc = "done" =>
          /\ exit = (IF env = "" THEN 2
                     ELSE IF ~disk.readable THEN 4
                     ELSE IF UnmarshalV2(disk.bytes).failed /\ UnmarshalV1(disk.bytes).failed THEN 5
                     ELSE IF \E p \in SelectedPaths(disk.bytes) : FetchFails(p) THEN 6
                     ELSE 0)
          /\ exit \in {2, 4, 5} =>
                /\ calls = <<>>
                /\ \A l \in Lines(stdout) : ~IsBannerLine(l)

ExitCodeByFirstFailingStageWitness ==
    /\ pc = "done"
    /\ exit = 5
    /\ ~vault.client
    /\ legacy

\* C8: every line on stdout is a banner line or an export line.
StdoutShellSourceable ==
    \A l \in Lines(stdout) : IsBannerLine(l) \/ IsExportLine(l)

\* The entry whose export line a step of a range has just written.
Written == CHOOSE k \in todo : k \notin todo'
WritesExport == pc = "range" /\ Len(stdout') = Len(stdout) + 1

\* C7 as stated: the value of an export line is the variable's value, or the
\* fetched secret's value, copied character for character between the quotes.
NoEscaping ==
    [][WritesExport =>
          LET k == Written
              b == Bucket(config, env, dc, section)
              l == stdout'[Len(stdout')]
          IN IF section \in SecretSections
             THEN l = <<"export ", k, "=", "\"">> \o Lookup(vault.read, b[k], NoRecord).value
                      \o <<"\"", " # ">> \o b[k]
             ELSE l = <<"export ", k, "=", "\"">> \o b[k] \o <<"\"">>]_vars

RECURSIVE Escaped(_)
Escaped(v) ==
    IF v = <<>> THEN <<>>
    ELSE (IF Head(v) \in {"\"", "\\"} THEN <<"\\", Head(v)>>
          ELSE IF Head(v) = "\n" THEN <<"\\", "n">>
          ELSE <<Head(v)>>) \o Escaped(Tail(v))

\* C7 amended: between the quotes stands the value with every double quote
\* and every backslash preceded by a backslash and every newline written as
\* backslash n; all other characters are copied.
EscapedExport ==
    [][WritesExport =>
          LET k == Written
              b == Bucket(config, env, dc, section)
              l == stdout'[Len(stdout')]
          IN IF section \in SecretSections
             THEN l = <<"export ", k, "=", "\"">> \o Escaped(Lookup(vault.read, b[k], NoRecord).value)
                      \o <<"\"", " # ">> \o b[k]
             ELSE l = <<"export ", k, "=", "\"">> \o Escaped(b[k]) \o <<"\"">>]_vars

EscapedExportWitness ==
    /\ <<"export ", "FOO", "=", "\"", "\\", "\"", "\"">> \in Lines(stdout)
    /\ <<"export ", "TOK", "=", "\"", "\\", "n", "\"", " # ", "/", "g1">> \in Lines(stdout)

\* C6: a successful run on a configuration decoded as V2 writes the header,
\* then the six sections in order, the datacenter banners labelled with the
\* environment name and printed for every dc, each banner followed by one
\* export per entry of its bucket.
V2OutputOrder ==
    (pc = "done" /\ exit = 0 /\ ~legacy) =>
        LET e == Lookup(config.Environments, env, ZeroEnv)
            d == Lookup(e.Dcs, dc, ZeroDc)
        IN Matches(stdout, HeaderBlocks \o
              <<Block(<<"# Global Vars:">>, VarLines(config.Vars)),
                Block(<<"# Global Secrets:">>, SecretLines(config.Secrets)),
                Block(<<"# Environment (", env, ") Vars:">>, VarLines(e.Vars)),
                Block(<<"# Environment (", env, ") Secrets:">>, SecretLines(e.Secrets)),
                Block(<<"# Datacenter (", env, ") Specific Vars:">>, VarLines(d.Vars)),
                Block(<<"# Datacenter (", env, ") Specific Secrets:">>, SecretLines(d.Secrets))>>)

V2OutputOrderWitness ==
    /\ pc = "done"
    /\ exit = 0
    /\ ~legacy
    /\ dc = "us"
    /\ <<"# Datacenter (", "dev", ") Specific Secrets:">> \in Lines(stdout)
    /\ <<"export ", "DCTOK", "=", "\"", "a", "\"", " # ", "/", "dev", "/", "us">> \in Lines(stdout)
    /\ <<"export ", "REGION", "=", "\"", "a", "\"">> \in Lines(stdout)


\* C10: while no fetch has failed, every fetch is for an entry of a selected
\* secrets bucket, no entry is fetched twice, global fetches come before
\* environment fetches and these before datacenter fetches, the banner of
\* the entry's bucket is on stdout when the fetch is made and the entry's
\* export line is the next line written; a successful run has fetched every
\* entry of the selected buckets.
SecretFetchOrderAndCount ==
    LET e == Lookup(config.Environments, env, ZeroEnv)
        d == Lookup(e.Dcs, dc, ZeroDc)
        selected(s) == CASE s = "GlobalSecrets" -> config.Secrets
                         [] s = "EnvSecrets" -> e.Secrets
                         [] s = "DcSecrets" -> IF legacy THEN EmptyMap ELSE d.Secrets
                         [] OTHER -> EmptyMap
        rank(s) == CASE s = "GlobalSecrets" -> 1 [] s = "EnvSecrets" -> 2 [] OTHER -> 3
        banner(s) == CASE s = "GlobalSecrets" -> <<"# Global Secrets:">>
                       [] s = "EnvSecrets" -> <<"# Environment (", env, ") Secrets:">>
                       [] OTHER -> <<"# Datacenter (", env, ") Specific Secrets:">>
        n == Len(calls)
    IN (\A i \in 1..n : ~FetchFails(calls[i].path)) =>
          /\ \A i \in 1..n :
                LET c == calls[i]
                    line == ExportSecret(c.key, Lookup(vault.read, c.path, NoRecord).value, c.path)
                IN /\ c.key \in DOMAIN selected(c.section)
                   /\ c.path = selected(c.section)[c.key]
                   /\ \E p \in 1..c.at : stdout[p] = banner(c.section)
                   /\ Len(stdout) > c.at => stdout[c.at + 1] = line
                   /\ Len(stdout) = c.at => (cur # <<>> /\ i = n)
          /\ \A i, j \in 1..n :
                i < j => /\ rank(calls[i].section) <= rank(calls[j].section)
                         /\ <<calls[i].section, calls[i].key>> # <<calls[j].section, calls[j].key>>
          /\ (pc = "done" /\ exit = 0) =>
                n = Cardinality(DOMAIN selected("GlobalSecrets"))
                    + Cardinality(DOMAIN selected("EnvSecrets"))
                    + Cardinality(DOMAIN selected("DcSecrets"))

SecretFetchOrderAndCountWitness ==
    /\ pc = "done"
    /\ exit = 0
    /\ Len(calls) = 4
    /\ calls[2].section = "GlobalSecrets"
    /\ calls[3].section = "EnvSecrets"
    /\ calls[4].section = "DcSecrets"
    /\ DOMAIN Lookup(config.Environments, "prod", ZeroEnv).Secrets # {}
    /\ env = "dev"

\* C2: in legacy mode the output is that of the V1-decoded configuration:
\* its global and environment buckets, and for a non-empty dc the entries of
\* its flat datacenter mapping.
LegacyPromotion ==
    (pc = "done" /\ exit = 0 /\ legacy) =>
        LET e == Lookup(configV1.Environments, env, ZeroEnv)
            flat == Lookup(e.Dcs, dc, EmptyMap)
        IN Matches(stdout, HeaderBlocks \o
              <<Block(<<"# Global Vars:">>, VarLines(configV1.Vars)),
                Block(<<"# Global Secrets:">>, SecretLines(configV1.Secrets)),
                Block(<<"# Environment (", env, ") Vars:">>, VarLines(e.Vars)),
                Block(<<"# Environment (", env, ") Secrets:">>, SecretLines(e.Secrets))>>
              \o (IF dc # "" THEN <<Block(<<"# Datacenter (", dc, ") Specific Vars:">>, VarLines(flat))>>
                  ELSE <<>>))

\* The datacenter values of a document.
DcNodesOf(doc) ==
    IF doc.t = "map" /\ "environments" \in DOMAIN doc.m /\ doc.m["environments"].t = "map"
    THEN UNION {IF en.t = "map" /\ "dcs" \in DOMAIN en.m /\ en.m["dcs"].t = "map"
                THEN Range(en.m["dcs"].m) ELSE {} : en \in Range(doc.m["environments"].m)}
    ELSE {}

\* A document of the V1 shape: it decodes as V1 and has datacenters, each a
\* non-empty flat mapping.
V1Shaped(doc) ==
    /\ doc.t = "map"
    /\ ~UnmarshalV1(doc).failed
    /\ DcNodesOf(doc) # {}
    /\ \A n \in DcNodesOf(doc) : DOMAIN n.m # {}

\* C4: a run on a V1-shaped document whose secrets can all be fetched ends
\* with exit code 0; with a dc it prints the datacenter banner labelled with
\* the datacenter name and no datacenter-secrets banner, without a dc it
\* prints no datacenter section.
LegacyForm ==
    (/\ pc = "done"
     /\ env # ""
     /\ disk.readable
     /\ V1Shaped(disk.bytes)
     /\ \A p \in SelectedPaths(disk.bytes) : ~FetchFails(p)) =>
        /\ exit = 0
        /\ \A l \in Lines(stdout) : ~(l[1] = "# Datacenter (" /\ l[3] = ") Specific Secrets:")
        /\ IF dc # ""
           THEN <<"# Datacenter (", dc, ") Specific Vars:">> \in Lines(stdout)
           ELSE \A l \in Lines(stdout) : l[1] # "# Datacenter ("

\* The V1 translation of a V2 document: every datacenter value replaced by
\* its vars mapping.
TranslateDc(n) ==
    IF n.t = "map"
    THEN (IF "vars" \in DOMAIN n.m THEN n.m["vars"] ELSE Mapping(EmptyMap))
    ELSE n

TranslateDcs(n) ==
    IF n.t = "map" THEN Mapping([k \in DOMAIN n.m |-> TranslateDc(n.m[k])]) ELSE n

TranslateEnv(n) ==
    IF n.t = "map"
    THEN Mapping([k \in DOMAIN n.m |-> IF k = "dcs" THEN TranslateDcs(n.m[k]) ELSE n.m[k]])
    ELSE n

TranslateEnvs(n) ==
    IF n.t = "map" THEN Mapping([k \in DOMAIN n.m |-> TranslateEnv(n.m[k])]) ELSE n

Translate(doc) ==
    IF doc.t = "map"
    THEN Mapping([k \in DOMAIN doc.m |->
                    IF k = "environments" THEN TranslateEnvs(doc.m[k]) ELSE doc.m[k]])
    ELSE doc

\* A V2 document with datacenters, none of which declares secrets.
V2WithoutDcSecrets(doc) ==
    /\ doc.t = "map"
    /\ ~UnmarshalV2(doc).failed
    /\ DcNodesOf(doc) # {}
    /\ \A n \in DcNodesOf(doc) : n.t = "map" /\ "vars" \in DOMAIN n.m /\ "secrets" \notin DOMAIN n.m

TranslatableDocuments == {d \in Documents : V2WithoutDcSecrets(d)}

\* C3: a run on the V1 translation of a V2 document without datacenter
\* secrets ends with the exit code of the run on the V2 document and, when
\* that is 0, has written the V2 run's lines without the datacenter-secrets
\* banner.
SchemaRoundTrip ==
    (pc = "done" /\ env # "" /\ disk.readable) =>
        \A d2 \in TranslatableDocuments :
            Translate(d2) = disk.bytes =>
                LET cfg == UnmarshalV2(d2).val
                    e == Lookup(cfg.Environments, env, ZeroEnv)
                    d == Lookup(e.Dcs, dc, ZeroDc)
                    fails == \E p \in Range(cfg.Secrets) \cup Range(e.Secrets) : FetchFails(p)
                IN /\ exit = (IF fails THEN 6 ELSE 0)
                   /\ exit = 0 =>
                        Matches(stdout, HeaderBlocks \o
                          <<Block(<<"# Global Vars:">>, VarLines(cfg.Vars)),
                            Block(<<"# Global Secrets:">>, SecretLines(cfg.Secrets)),
                            Block(<<"# Environment (", env, ") Vars:">>, VarLines(e.Vars)),
                            Block(<<"# Environment (", env, ") Secrets:">>, SecretLines(e.Secrets)),
                            Block(<<"# Datacenter (", env, ") Specific Vars:">>, VarLines(d.Vars))>>)

====
